---- MODULE Spec2Model ----
(***************************************************************************)
(* A model of the heart-disease repository: the model registry             *)
(* (app/backend/inference.py SavedModel over heart_disease/base.py Model), *)
(* the training entry points (heart_disease/train.py, train.py), the HTTP  *)
(* handlers (app/api.py, app/routers/*.py) and the user table access       *)
(* (app/database/query.py).                                                *)
(*                                                                         *)
(* Conventions.                                                            *)
(*  - A Python str is a sequence of tokens: 'Decision Tree.joblib' is      *)
(*    <<"Decision Tree", ".joblib">>, '' is <<>>; concatenation is \o.     *)
(*    None where a str is expected is the sentinel None.                   *)
(*  - A call returns an outcome record whose field exc is "None" for a     *)
(*    normal return and the name of the exception class otherwise.         *)
(*  - An action is one call of an entry point (a constructor, a handler,   *)
(*    a script); it leaves its outcome in the variable last.               *)
(*  - A global name that a module's import statement cannot bind (the      *)
(*    imported module defines no such name) is unbound; the model raises   *)
(*    where the function under study first evaluates the name.  (Python    *)
(*    raises even earlier, when the module is imported.)                   *)
(*  - A request is followed from the router that declares its route: the   *)
(*    router is taken as mounted under the path its tests address.         *)
(***************************************************************************)
EXTENDS Integers, Sequences, FiniteSets, TLC

VARIABLES
    fs,           \* the file system: directory -> (file name -> dumped estimator)
    csv,          \* whether the CSV file given to training exists
    saved_model,  \* the SavedModel object most recently constructed, or Unbound
    users,        \* rows of the `user` table
    trained,      \* model names (keys of _MODELS) whose training has been run
    dataset,      \* the Data object being iterated
    last          \* outcome of the most recent call

vars == <<fs, csv, saved_model, users, trained, dataset, last>>

(***************************************************************************)
(* Strings                                                                 *)
(***************************************************************************)
None == <<"<None>">>

Str(tok) == <<tok>>

\* `x or y` on Optional[str]: None and '' are falsy.
Falsy(s) == s = None \/ s = <<>>

Or(x, y) == IF Falsy(x) THEN y ELSE x

\* str.removesuffix(suffix)
removesuffix(s, suffix) ==
    IF Len(s) >= Len(suffix) /\ Len(suffix) > 0
       /\ SubSeq(s, Len(s) - Len(suffix) + 1, Len(s)) = suffix
    THEN SubSeq(s, 1, Len(s) - Len(suffix))
    ELSE s

JOBLIB == <<".joblib">>

\* f'{name}.joblib'
JoblibFileName(name) == name \o JOBLIB

(***************************************************************************)
(* heart_disease/config/consts.py : FS, and os.path on the modelled fs     *)
(***************************************************************************)
SAVED_MODELS == Str("data/trained_model")

OTHER_DIR == Str("res/trained_model/")

SEP == "/"

\* os.path.join(dir, file)
join(dir, file) == dir \o <<SEP>> \o file

\* Position of the last separator of a path, 0 if it has none.
LastSep(path) ==
    LET idx == {i \in 1..Len(path) : path[i] = SEP}
    IN  IF idx = {} THEN 0 ELSE CHOOSE i \in idx : \A j \in idx : j <= i

\* os.path.dirname(path), os.path.basename(path)
dirname(path) == SubSeq(path, 1, LastSep(path) - 1)

basename(path) == SubSeq(path, LastSep(path) + 1, Len(path))

isdir(f, dir) == dir \in DOMAIN f

isfile(f, path) == dirname(path) \in DOMAIN f /\ basename(path) \in DOMAIN f[dirname(path)]

\* The content of the file at path.
ReadFile(f, path) == f[dirname(path)][basename(path)]

listdir(f, dir) == DOMAIN f[dir]

(***************************************************************************)
(* heart_disease/models.py                                                 *)
(***************************************************************************)
SVM_NAME == Str("Support Vector Machine")
KNN_NAME == Str("K-Nearest Neighbors")
NB_NAME == Str("Naive Bayes")
DT_NAME == Str("Decision Tree")

\* _MODELS: name -> class
_MODELS ==
    (SVM_NAME :> "SupportVectorMachine") @@ (KNN_NAME :> "KNearestNeighbors")
    @@ (NB_NAME :> "NaiveBayes") @@ (DT_NAME :> "DecisionTree")

\* The names the module heart_disease.models binds at top level.
ModelsModule ==
    {"SupportVectorMachine", "KNearestNeighbors", "NaiveBayes", "DecisionTree",
     "_MODELS", "Models"}

\* The scikit-learn estimator class each model class instantiates.
EstimatorClass ==
    ("SupportVectorMachine" :> "SVC") @@ ("KNearestNeighbors" :> "KNeighborsClassifier")
    @@ ("NaiveBayes" :> "GaussianNB") @@ ("DecisionTree" :> "DecisionTreeClassifier")

\* The name each model class passes to base.Model.__init__.
ClassName ==
    ("SupportVectorMachine" :> SVM_NAME) @@ ("KNearestNeighbors" :> KNN_NAME)
    @@ ("NaiveBayes" :> NB_NAME) @@ ("DecisionTree" :> DT_NAME)

(***************************************************************************)
(* heart_disease/base.py : Model                                           *)
(***************************************************************************)
\* self._model = None; its __class__.__name__ is 'NoneType'.
NoEstimator == [cls |-> "NoneType", fitted |-> FALSE, src |-> "none"]

FreshEstimator(cls) == [cls |-> cls, fitted |-> FALSE, src |-> "new"]

\* Model.__init__(name=...)
Model_init(name) ==
    [_model |-> NoEstimator,
     _name |-> name,
     _path |-> join(SAVED_MODELS, JoblibFileName(name))]

\* SupportVectorMachine(), KNearestNeighbors(), NaiveBayes(), DecisionTree()
NewModel(class) ==
    [Model_init(ClassName[class]) EXCEPT !._model = FreshEstimator(EstimatorClass[class])]

\* joblib.load(path)
joblib_load(f, path) ==
    IF isfile(f, path)
    THEN [exc |-> "None", val |-> ReadFile(f, path)]
    ELSE IF isdir(f, path)
    THEN [exc |-> "IsADirectoryError", val |-> NoEstimator]
    ELSE [exc |-> "FileNotFoundError", val |-> NoEstimator]

\* Model.load_model(path): the outcome and the model after the call.
load_model(m, pathArg, f) ==
    LET path == Or(pathArg, m._path)
    IN  IF isfile(f, path)
        THEN [exc |-> "FileNotFoundError", model |-> m]
        ELSE LET r == joblib_load(f, path)
             IN  IF r.exc # "None"
                 THEN [exc |-> r.exc, model |-> m]
                 ELSE [exc |-> "None", model |-> [m EXCEPT !._model = r.val]]

\* Model.save_model(): makedirs(dirname(self._path)) and joblib.dump; the new fs.
save_model(m, f) ==
    LET dir == dirname(m._path)
        old == IF isdir(f, dir) THEN f[dir] ELSE [x \in {} |-> 0]
        new == [x \in DOMAIN old \cup {basename(m._path)} |->
                   IF x = basename(m._path)
                   THEN [cls |-> m._model.cls, fitted |-> m._model.fitted, src |-> "dump"]
                   ELSE old[x]]
    IN  [d \in DOMAIN f \cup {dir} |-> IF d = dir THEN new ELSE f[d]]

\* Model.train(X, y): self._model.fit(X, y)
train(m) ==
    IF m._model # NoEstimator
    THEN [exc |-> "None", model |-> [m EXCEPT !._model.fitted = TRUE]]
    ELSE [exc |-> "TypeError", model |-> m]

\* The attributes a base.Model instance has (methods, aliases, properties, fields).
ModelAttributes ==
    {"train", "test", "predict", "predict_probability", "metrics", "confusion_matrix",
     "save_model", "load_model", "save", "load", "model", "name", "path",
     "_model", "_name", "_path"}

\* Positional parameters of Model.save_model besides self.
save_model_params == 0

(***************************************************************************)
(* Arrays and the scikit-learn estimator behind Model.predict              *)
(***************************************************************************)
\* The 13 feature names of app/schemas/model.py Features, in declaration order.
FeatureNames ==
    <<"age", "sex", "cp", "trestbps", "chol", "fbs", "restecg", "thalach",
      "exang", "oldpeak", "slope", "ca", "thal">>

\* np.array of shape (n_samples, n_features).
Array2D(rows) == [ndim |-> 2, rows |-> rows]

\* np.array(<dict_values>): a 0-d object array holding the view.
Array0D(values) == [ndim |-> 0, rows |-> <<values>>]

\* The class a fitted estimator assigns to one sample (column 3 is cp).
Classify(est, row) == IF row[3] >= 1 THEN 1 ELSE 0

\* estimator.predict(inputs)
estimator_predict(est, inputs) ==
    IF ~est.fitted THEN [exc |-> "NotFittedError", val |-> <<>>]
    ELSE IF inputs.ndim # 2 THEN [exc |-> "ValueError", val |-> <<>>]
    ELSE [exc |-> "None",
          val |-> [i \in 1..Len(inputs.rows) |-> Classify(est, inputs.rows[i])]]

\* Estimator classes that offer predict_proba as constructed by models.py.
HasPredictProba == {"KNeighborsClassifier", "GaussianNB", "DecisionTreeClassifier"}

\* Class probabilities of one sample in tenths: <<p(0), p(1)>>, summing to 10.
Proba(est, row) == IF Classify(est, row) = 1 THEN <<1, 9>> ELSE <<8, 2>>

\* No confidence: `confidence` is None.
NoConfidence == <<>>

\* Model.predict(inputs)
Model_predict(m, inputs) ==
    IF m._model # NoEstimator THEN estimator_predict(m._model, inputs)
    ELSE [exc |-> "TypeError", val |-> <<>>]

\* Model.predict_probability(inputs)
predict_probability(m, inputs) ==
    IF m._model = NoEstimator THEN [exc |-> "TypeError", val |-> NoConfidence]
    ELSE IF m._model.cls \notin HasPredictProba THEN [exc |-> "None", val |-> NoConfidence]
    ELSE IF ~m._model.fitted THEN [exc |-> "NotFittedError", val |-> NoConfidence]
    ELSE IF inputs.ndim # 2 THEN [exc |-> "ValueError", val |-> NoConfidence]
    ELSE [exc |-> "None",
          val |-> [i \in 1..Len(inputs.rows) |-> Proba(m._model, inputs.rows[i])]]

\* Model.__call__(inputs)
Model_call(m, inputs) ==
    LET p == Model_predict(m, inputs)
        c == predict_probability(m, inputs)
    IN  IF p.exc # "None" THEN [exc |-> p.exc, prediction |-> <<>>, confidence |-> NoConfidence]
        ELSE IF c.exc # "None" THEN [exc |-> c.exc, prediction |-> <<>>, confidence |-> NoConfidence]
        ELSE [exc |-> "None", prediction |-> p.val, confidence |-> c.val]

(***************************************************************************)
(* app/backend/inference.py : SavedModel                                   *)
(***************************************************************************)
Unbound == [bound |-> FALSE, model_dir |-> None, _models |-> [n \in {} |-> 0]]

\* One order in which os.listdir may return the names.
RECURSIVE SetToSeq(_)
SetToSeq(S) ==
    IF S = {} THEN <<>>
    ELSE LET x == CHOOSE y \in S : TRUE IN <<x>> \o SetToSeq(S \ {x})

\* The body of the loop over os.listdir(self.model_dir), lines 46-58.
RECURSIVE LoadAll(_, _, _, _)
LoadAll(f, dir, todo, acc) ==
    IF todo = <<>> THEN [exc |-> "None", _models |-> acc]
    ELSE LET model_file == Head(todo)
             path == join(dir, model_file)
             model_name == removesuffix(model_file, JOBLIB)
         IN  IF "MODELS" \notin ModelsModule
             THEN [exc |-> "AttributeError", _models |-> acc]
             ELSE IF model_name \notin DOMAIN _MODELS
             THEN [exc |-> "KeyError", _models |-> acc]
             ELSE LET r == load_model(NewModel(_MODELS[model_name]), path, f)
                  IN  IF r.exc # "None"
                      THEN [exc |-> r.exc, _models |-> acc]
                      ELSE LoadAll(f, dir, Tail(todo),
                                   [n \in DOMAIN acc \cup {model_name} |->
                                       IF n = model_name THEN r.model ELSE acc[n]])

\* SavedModel.__init__(model_dir): the outcome and the object constructed.
SavedModel_init(model_dir, f) ==
    LET self_model_dir == Or(model_dir, SAVED_MODELS)
    IN  IF model_dir = None
        THEN [exc |-> "TypeError", obj |-> Unbound]
        ELSE IF ~isdir(f, model_dir)
        THEN [exc |-> "FileNotFoundError", obj |-> Unbound]
        ELSE LET r == LoadAll(f, self_model_dir,
                              SetToSeq(listdir(f, self_model_dir)),
                              [n \in {} |-> 0])
             IN  IF r.exc # "None"
                 THEN [exc |-> r.exc, obj |-> Unbound]
                 ELSE [exc |-> "None",
                       obj |-> [bound |-> TRUE, model_dir |-> self_model_dir,
                                _models |-> r._models]]

\* A __getitem__ that stores an entry for an item it does not find, as a
\* defaultdict would.
SavedModel_getitem_inserting(self, item) ==
    IF item \in DOMAIN self._models
    THEN [exc |-> "None", val |-> self._models[item], self |-> self]
    ELSE [exc |-> "None", val |-> [_model |-> NoEstimator, _name |-> None, _path |-> None],
          self |-> [self EXCEPT !._models =
                       [n \in DOMAIN self._models \cup {item} |->
                           IF n = item
                           THEN [_model |-> NoEstimator, _name |-> None, _path |-> None]
                           ELSE self._models[n]]]]

\* SavedModel.__getitem__(item): self._models[item] on a plain dict; the
\* outcome, the model returned and the object after the call.
SavedModel_getitem(self, item) ==
    IF item \in DOMAIN self._models
    THEN [exc |-> "None", val |-> self._models[item], self |-> self]
    ELSE [exc |-> "KeyError", val |-> [_model |-> NoEstimator, _name |-> None, _path |-> None],
          self |-> self]

\* SavedModel.list_available_models()
list_available_models(self) == DOMAIN self._models

\* The builtin any(*args): it takes exactly one argument, an iterable.
any_builtin(args) ==
    IF Len(args) # 1 THEN [exc |-> "TypeError", val |-> FALSE]
    ELSE [exc |-> "None", val |-> \E i \in 1..Len(args[1]) : ~Falsy(args[1][i])]

\* No model argument: `model` is None.
NoModel == [_model |-> NoEstimator, _name |-> None, _path |-> None]

NoPrediction == [model_name |-> None, has_heart_disease |-> <<>>, confidence_score |-> <<>>]

\* max(confidence) * 100.0 over the rows of the probabilities, in percent: one
\* row is its own maximum, several rows cannot be ordered (ValueError).
MaxConfidence(confidence) ==
    IF Len(confidence) = 1
    THEN [exc |-> "None", val |-> [j \in 1..Len(confidence[1]) |-> confidence[1][j] * 10]]
    ELSE [exc |-> "ValueError", val |-> <<>>]

\* SavedModel.predict(inputs, name=..., model=...)
predict(self, inputs, name, model) ==
    LET a == any_builtin(<<name, IF model = NoModel THEN None ELSE model._name>>)
    IN  IF a.exc # "None" THEN [exc |-> a.exc, val |-> NoPrediction]
        ELSE IF ~a.val THEN [exc |-> "ValueError", val |-> NoPrediction]
        ELSE IF model = NoModel /\ name \notin DOMAIN self._models
        THEN [exc |-> "KeyError", val |-> NoPrediction]
        ELSE LET used == IF model # NoModel THEN model ELSE self._models[name]
                 result == Model_call(used, inputs)
             IN  IF result.exc # "None" THEN [exc |-> result.exc, val |-> NoPrediction]
                 ELSE IF result.confidence # NoConfidence
                         /\ MaxConfidence(result.confidence).exc # "None"
                 THEN [exc |-> MaxConfidence(result.confidence).exc, val |-> NoPrediction]
                 ELSE [exc |-> "None",
                       val |-> [model_name |-> used._name,
                                has_heart_disease |->
                                    [i \in 1..Len(result.prediction) |-> result.prediction[i] # 0],
                                confidence_score |->
                                    IF result.confidence = NoConfidence THEN NoConfidence
                                    ELSE MaxConfidence(result.confidence).val]]

\* The loop over the futures of predict_all: results of the calls that return.
RECURSIVE CollectResults(_, _, _, _)
CollectResults(self, inputs, todo, results) ==
    IF todo = <<>> THEN results
    ELSE LET r == predict(self, inputs, None, self._models[Head(todo)])
         IN  CollectResults(self, inputs, Tail(todo),
                            IF r.exc = "None" THEN Append(results, r.val) ELSE results)

\* SavedModel.predict_all(inputs)
predict_all(self, inputs) ==
    [exc |-> "None",
     val |-> CollectResults(self, inputs, SetToSeq(DOMAIN self._models), <<>>)]

\* SavedModel.data_to_array(data): np.array(data.dict().values())
data_to_array(data) == Array0D([i \in 1..Len(FeatureNames) |-> data[FeatureNames[i]]])

(***************************************************************************)
(* heart_disease/train.py and train.py                                     *)
(***************************************************************************)
\* `from heart_disease.models import MODELS` binds MODELS only if the module has it.
TrainBinds(name) == name \in ModelsModule

\* Data(filename): pd.read_csv(filename)
Data(csvExists) == IF csvExists THEN "None" ELSE "FileNotFoundError"

\* The Data object over a frame of rows, each [features, target], after
\* __init__: self._df and self.__current_id.
Data_init(rows) == [_df |-> rows, __current_id |-> 0]

\* No (features, target) pair.
NoPair == [features |-> <<>>, target |-> 0]

\* self._df[...].loc[label]: the row labelled label; read_csv labels the rows
\* 0 .. len - 1.
loc(df, label) ==
    IF label + 1 \in 1..Len(df)
    THEN [exc |-> "None", val |-> df[label + 1]]
    ELSE [exc |-> "KeyError", val |-> NoPair]

\* Data.__len__()
Data_len(self) == Len(self._df)

\* Data.__next__(): the outcome, the pair returned and the object after the call.
Data_next(self) ==
    IF self.__current_id = Len(self._df)
    THEN [exc |-> "StopIteration", val |-> NoPair, self |-> self]
    ELSE LET id == self.__current_id + 1
             r == loc(self._df, id)
         IN  [exc |-> r.exc, val |-> r.val, self |-> [self EXCEPT !.__current_id = id]]

\* _train_and_save_model(X_train, y_train, model_name): outcome and the new fs.
_train_and_save_model(model_name, f) ==
    IF ~TrainBinds("MODELS") THEN [exc |-> "ImportError", fs |-> f]
    ELSE IF model_name \notin DOMAIN _MODELS THEN [exc |-> "KeyError", fs |-> f]
    ELSE IF "fit" \notin ModelAttributes THEN [exc |-> "AttributeError", fs |-> f]
    ELSE IF save_model_params # 1 THEN [exc |-> "TypeError", fs |-> f]
    ELSE LET m == train(NewModel(_MODELS[model_name])).model
             path == join(SAVED_MODELS, JoblibFileName(model_name))
         IN  [exc |-> "None", fs |-> save_model([m EXCEPT !._path = path], f)]

\* executor.map(func, names): every task runs; no result is ever collected.
RECURSIVE MapTrain(_, _)
MapTrain(names, f) ==
    IF names = <<>> THEN f
    ELSE MapTrain(Tail(names), _train_and_save_model(Head(names), f).fs)

\* train_all(filename)
train_all(csvExists, f) ==
    IF Data(csvExists) # "None" THEN [exc |-> Data(csvExists), fs |-> f]
    ELSE IF ~TrainBinds("MODELS") THEN [exc |-> "ImportError", fs |-> f]
    ELSE [exc |-> "None", fs |-> MapTrain(SetToSeq(DOMAIN _MODELS), f)]

\* train_model(model_name, filename): executor.submit, the future is dropped.
train_model(model_name, csvExists, f) ==
    IF Data(csvExists) # "None" THEN [exc |-> Data(csvExists), fs |-> f]
    ELSE [exc |-> "None", fs |-> _train_and_save_model(model_name, f).fs]

\* --select-model choices of the argument parser.
Choices == {"all", "svm", "dt", "nb", "knn"}

\* The dict of main() from the choice to the model name.
SelectModel ==
    ("svm" :> SVM_NAME) @@ ("nb" :> NB_NAME) @@ ("dt" :> Str("Decision Trees"))
    @@ ("Knn" :> Str("K-Nearest Neigbhors"))

\* main(): outcome, the model_name handed to train_model (None if none), the new fs.
main(choice, csvExists, f) ==
    IF choice = "all"
    THEN LET r == train_all(csvExists, f)
         IN  [exc |-> r.exc, called |-> None, fs |-> r.fs]
    ELSE IF choice \notin DOMAIN SelectModel
    THEN [exc |-> "KeyError", called |-> None, fs |-> f]
    ELSE LET r == train_model(SelectModel[choice], csvExists, f)
         IN  [exc |-> r.exc, called |-> SelectModel[choice], fs |-> r.fs]

(***************************************************************************)
(* app/routers/model.py, app/routers/predict.py, app/api.py : handlers     *)
(***************************************************************************)
\* HTTP status of a handler outcome.
Status(exc) ==
    IF exc = "None" THEN 200 ELSE IF exc = "HTTPException400" THEN 400 ELSE 500

\* available_models(): GET /models of app/routers/model.py.
available_models(sm) == [exc |-> "None", val |-> list_available_models(sm)]

\* predict_heart_disease(body): POST /predict/ of app/routers/predict.py.
predict_heart_disease(body, f) ==
    LET c == SavedModel_init(None, f)
    IN  IF c.exc # "None" THEN [exc |-> c.exc, val |-> <<>>]
        ELSE LET data == data_to_array(body.data)
             IN  IF ~Falsy(body.model_name)
                 THEN LET r == predict(c.obj, data, body.model_name, NoModel)
                      IN  [exc |-> r.exc, val |-> IF r.exc = "None" THEN <<r.val>> ELSE <<>>]
                 ELSE predict_all(c.obj, data)

\* predict_with_model(model_name, body): POST /predict/{model_name}.
predict_with_model(model_name, body, f) ==
    LET c == SavedModel_init(None, f)
    IN  IF c.exc # "None" THEN [exc |-> c.exc, val |-> NoPrediction]
        ELSE predict(c.obj, data_to_array(body.data), model_name, NoModel)

\* Fields app/model.py RecordRequest requires of the value a handler returns.
RecordRequestFields == {"record_id", "data"}

\* The attributes of a Python list that are read through `.` in api.py.
ListAttributes == {}

\* The keys of the value a handler returns, as the response model reads them:
\* a list of records offers none.
ResponseKeys(res) == {}

\* predict(body): POST /predict of app/api.py, with its response_model.
api_predict(body) ==
    LET res == <<>>
    IN  IF Len(body.values) > 0 /\ "data" \notin ListAttributes
        THEN [exc |-> "AttributeError", val |-> <<>>]
        ELSE IF ~(RecordRequestFields \subseteq ResponseKeys(res))
        THEN [exc |-> "ValidationError", val |-> <<>>]
        ELSE [exc |-> "None", val |-> res]

(***************************************************************************)
(* app/database/query.py, app/backend/user.py, app/routers/users.py        *)
(***************************************************************************)
\* The empty result of Query.first(): None.
NoRow == [id |-> 0, email |-> None, password_hash |-> None]

\* User.get_user_by_email(db, email)
get_user_by_email(db, email) ==
    IF \E r \in db : r.email = email
    THEN CHOOSE r \in db : r.email = email
    ELSE NoRow

\* The query functions declared `async def`.
AsyncQueries == {}

\* `await f(...)` where f returned v: only a coroutine can be awaited.
Await(fn, v) ==
    IF fn \in AsyncQueries THEN [exc |-> "None", val |-> v]
    ELSE [exc |-> "TypeError", val |-> NoRow]

\* get_password_hash(password): the hash is computed and not returned.
get_password_hash(password) == None

\* Fields of the request schema app/schemas/users.py User.
UserFields == {"email", "password"}

\* User.add_user(db, user): outcome, the row returned, the new table.
add_user(db, user) ==
    LET password_hash == get_password_hash(user.password)
        read == {"password", "email", "category", "first_name", "last_name"}
        id == 1 + Cardinality(db)
        row == [id |-> id, email |-> user.email, password_hash |-> password_hash]
    IN  IF ~(read \subseteq UserFields)
        THEN [exc |-> "AttributeError", row |-> NoRow, db |-> db]
        ELSE IF password_hash = None
        THEN [exc |-> "IntegrityError", row |-> NoRow, db |-> db]
        ELSE [exc |-> "None", row |-> row, db |-> db \cup {row}]

\* create_user(user, db): POST /users/.
create_user(user, db) ==
    LET q == Await("get_user_by_email", get_user_by_email(db, user.email))
    IN  IF q.exc # "None" THEN [exc |-> q.exc, row |-> NoRow, db |-> db]
        ELSE IF q.val # NoRow THEN [exc |-> "HTTPException400", row |-> NoRow, db |-> db]
        ELSE add_user(db, user)

\* The names app/database/query.py binds at top level.
QueryModule == {"User", "Patient", "Model"}

\* The static methods the classes of app/database/query.py define.
QueryMethods ==
    {"get_user", "get_user_by_email", "add_user", "get_patient", "add_patient",
     "add_features"}

\* create_practitioner(practitioner, db): POST /users/practitioner.
create_practitioner(practitioner, db) ==
    IF "Practitioner" \notin QueryModule
    THEN [exc |-> "ImportError", row |-> NoRow, db |-> db]
    ELSE LET q == Await("get_user_by_email", get_user_by_email(db, practitioner.email))
         IN  IF q.exc # "None" THEN [exc |-> q.exc, row |-> NoRow, db |-> db]
             ELSE IF q.val # NoRow
             THEN [exc |-> "HTTPException400", row |-> NoRow, db |-> db]
             ELSE IF "add_practitioner" \notin QueryMethods
             THEN [exc |-> "AttributeError", row |-> NoRow, db |-> db]
             ELSE add_user(db, practitioner)

\* User.get_user(db, user_id)
get_user(db, user_id) ==
    IF \E r \in db : r.id = user_id
    THEN CHOOSE r \in db : r.id = user_id
    ELSE NoRow

\* Columns of the `user` table of app/database/tables.py.
UserColumns == {"id", "email", "password_hash", "first_name", "last_name", "category"}

\* read_user(user_id, db): GET /users/{user_id}, with response_model users.User
\* read from the returned row's attributes.
read_user(user_id, db) ==
    LET q == Await("get_user", get_user(db, user_id))
    IN  IF q.exc # "None" THEN [exc |-> q.exc, val |-> NoRow]
        ELSE IF q.val = NoRow \/ ~(UserFields \subseteq UserColumns)
        THEN [exc |-> "ValidationError", val |-> NoRow]
        ELSE [exc |-> "None", val |-> q.val]

\* read_patient(patient_id, db): GET /users/{patient_id}; the query is not
\* awaited, and the row (or None) is read through the response model.
read_patient(patient_id, db) ==
    LET row == get_user(db, patient_id)
    IN  IF row = NoRow THEN [exc |-> "ValidationError", val |-> NoRow]
        ELSE [exc |-> "None", val |-> row]

\* read_practitioner(practitioner_id, db): GET /users/{practitioner_id}.
read_practitioner(practitioner_id, db) ==
    IF "Practitioner" \notin QueryModule THEN [exc |-> "ImportError", val |-> NoRow]
    ELSE LET q == Await("get_practitioner", get_user(db, practitioner_id))
         IN  IF q.exc # "None" THEN [exc |-> q.exc, val |-> NoRow]
             ELSE [exc |-> "None", val |-> q.val]

(***************************************************************************)
(* app/routers/users.py : the routes of the router and their dispatch.     *)
(* A path is the sequence of its segments below the router's mount point   *)
(* /users ('/1' is <<"1">>, '/' is <<"">>); a pattern segment is a         *)
(* parameter ('{user_id}') or a literal.                                   *)
(***************************************************************************)
Param(name) == [param |-> TRUE, text |-> name]

Literal(text) == [param |-> FALSE, text |-> text]

\* The routes in the order the decorators register them.
UsersRoutes ==
    <<[method |-> "GET", path |-> <<Param("user_id")>>, endpoint |-> "read_user"],
      [method |-> "GET", path |-> <<Param("patient_id")>>, endpoint |-> "read_patient"],
      [method |-> "GET", path |-> <<Param("practitioner_id")>>,
       endpoint |-> "read_practitioner"],
      [method |-> "POST", path |-> <<Literal("")>>, endpoint |-> "create_user"],
      [method |-> "POST", path |-> <<Literal("patient")>>, endpoint |-> "create_patient"],
      [method |-> "POST", path |-> <<Literal("practitioner")>>,
       endpoint |-> "create_practitioner"]>>

\* Whether the route's path pattern matches the path: a parameter takes any
\* non-empty segment, a literal only itself.
PathMatches(route, path) ==
    /\ Len(route.path) = Len(path)
    /\ \A i \in 1..Len(path) :
          IF route.path[i].param THEN path[i] # "" ELSE route.path[i].text = path[i]

\* No route.
NoRoute == [method |-> "", path |-> <<>>, endpoint |-> "none"]

\* A router handing the request to the last route that matches it.
Dispatch_LastMatch(routes, method, path) ==
    LET full == {i \in 1..Len(routes) :
                    PathMatches(routes[i], path) /\ routes[i].method = method}
        partial == {i \in 1..Len(routes) : PathMatches(routes[i], path)}
    IN  IF full # {}
        THEN [exc |-> "None", route |-> routes[CHOOSE i \in full : \A j \in full : j <= i]]
        ELSE IF partial # {} THEN [exc |-> "HTTPException405", route |-> NoRoute]
        ELSE [exc |-> "HTTPException404", route |-> NoRoute]

\* The router's dispatch: the first route, in registration order, that matches
\* path and method handles the request; a path matched only under another
\* method answers 405, an unmatched path 404.
Dispatch(routes, method, path) ==
    LET full == {i \in 1..Len(routes) :
                    PathMatches(routes[i], path) /\ routes[i].method = method}
        partial == {i \in 1..Len(routes) : PathMatches(routes[i], path)}
    IN  IF full # {}
        THEN [exc |-> "None", route |-> routes[CHOOSE i \in full : \A j \in full : i <= j]]
        ELSE IF partial # {} THEN [exc |-> "HTTPException405", route |-> NoRoute]
        ELSE [exc |-> "HTTPException404", route |-> NoRoute]

\* The int a path segment converts to, for the `int` path parameters.
IdOf == ("1" :> 1) @@ ("2" :> 2) @@ ("3" :> 3)

\* A GET request to the router: dispatch, then the endpoint's call.
users_get(path, db) ==
    LET d == Dispatch(UsersRoutes, "GET", path)
        r == IF d.route.endpoint = "read_user" THEN read_user(IdOf[path[1]], db)
             ELSE IF d.route.endpoint = "read_patient" THEN read_patient(IdOf[path[1]], db)
             ELSE read_practitioner(IdOf[path[1]], db)
    IN  IF d.exc # "None" THEN [exc |-> d.exc, endpoint |-> "none", val |-> NoRow]
        ELSE [exc |-> r.exc, endpoint |-> d.route.endpoint, val |-> r.val]

(***************************************************************************)
(* app/schemas/model.py, app/routers/model.py : metadata and validation    *)
(***************************************************************************)
\* The fields of the schema Metadata with their defaults.
Metadata ==
    [name |-> Str("heart-disease"), version |-> Str("v1"),
     author |-> Str("Victor I. Afolabi"), license |-> Str("MIT or Apache")]

\* response_model=Metadata applied to the dict a handler returns: the dict's
\* value where it has the key, the field's default otherwise.
response_model_Metadata(val) ==
    [k \in DOMAIN Metadata |-> IF k \in DOMAIN val THEN val[k] ELSE Metadata[k]]

\* metadata(): GET /metadata of app/routers/model.py.
metadata ==
    [exc |-> "None",
     val |-> response_model_Metadata(
                [name |-> Str("heart_disease"), version |-> Str("1.0.0"),
                 author |-> Str("Victor I. Afaolbi"), license |-> Str("MIT or Apache")])]

\* The constraints Field(..., ge=, le=) declares for each field of Features.
FeatureBounds ==
    [age |-> [ge |-> 0], sex |-> [ge |-> 0, le |-> 1], cp |-> [ge |-> 0, le |-> 3],
     trestbps |-> [ge |-> 0], chol |-> [ge |-> 0], fbs |-> [ge |-> 0, le |-> 1],
     restecg |-> [ge |-> 0, le |-> 2], thalach |-> [ge |-> 0],
     exang |-> [ge |-> 0, le |-> 1], oldpeak |-> [ge |-> 0],
     slope |-> [ge |-> 0, le |-> 2], ca |-> [ge |-> 0, le |-> 4],
     thal |-> [ge |-> 0, le |-> 3]]

\* Features rejecting only missing fields and values below `ge`: `le` unread.
FeatureErrors_IgnoringLe(raw) ==
    {n \in DOMAIN FeatureBounds :
        \/ n \notin DOMAIN raw
        \/ raw[n] < FeatureBounds[n].ge}

\* The fields of raw (a JSON object) that Features rejects: a required field
\* that is missing, or a value outside the field's constraints.
FeatureErrors(raw) ==
    {n \in DOMAIN FeatureBounds :
        \/ n \notin DOMAIN raw
        \/ raw[n] < FeatureBounds[n].ge
        \/ "le" \in DOMAIN FeatureBounds[n] /\ raw[n] > FeatureBounds[n].le}

\* Features(**raw): the outcome and the object; keys that are no field are ignored.
Features(raw) ==
    IF FeatureErrors(raw) # {}
    THEN [exc |-> "ValidationError", val |-> [n \in {} |-> 0]]
    ELSE [exc |-> "None", val |-> [n \in DOMAIN FeatureBounds |-> raw[n]]]

\* PredictionRequest(**raw): data is required, model_name defaults to None.
PredictionRequest(raw) ==
    LET NoRequest == [data |-> [n \in {} |-> 0], model_name |-> None]
    IN  IF "data" \notin DOMAIN raw THEN [exc |-> "ValidationError", val |-> NoRequest]
        ELSE IF Features(raw.data).exc # "None"
        THEN [exc |-> Features(raw.data).exc, val |-> NoRequest]
        ELSE [exc |-> "None",
              val |-> [data |-> Features(raw.data).val,
                       model_name |-> IF "model_name" \in DOMAIN raw
                                      THEN raw.model_name ELSE None]]

(***************************************************************************)
(* app/backend/user.py : password hashing                                  *)
(***************************************************************************)
\* pwd_context.hash(password) with bcrypt under a salt: the scheme's prefix,
\* the salt and the digest of (salt, password).
pwd_context_hash(password, salt) == <<"$2b$12$", salt, "digest", salt>> \o password

\* pwd_context.verify(secret, hash): False for a hash of None, else whether
\* hashing the secret under the hash's salt gives the hash.
pwd_context_verify(secret, hash) ==
    IF hash = None THEN FALSE
    ELSE Len(hash) >= 2 /\ hash = pwd_context_hash(secret, hash[2])

\* verify_password(plain_password, hashed_password)
verify_password(plain_password, hashed_password) ==
    pwd_context_verify(plain_password, hashed_password)

(***************************************************************************)
(* app/schemas/users.py : User                                             *)
(***************************************************************************)
\* Field(..., min_length=4, max_length=20) of User.password.
password_min_length == 4

password_max_length == 20

\* User(**raw) for a raw body with a valid e-mail: the password, a sequence of
\* characters, is checked against min_length and max_length.
User(raw) ==
    IF Len(raw.password) < password_min_length \/ Len(raw.password) > password_max_length
    THEN [exc |-> "ValidationError", val |-> [email |-> None, password |-> <<>>]]
    ELSE [exc |-> "None", val |-> [email |-> raw.email, password |-> raw.password]]

(***************************************************************************)
(* Bounds and the initial state                                            *)
(***************************************************************************)
\* Files a model directory may hold: the four dumps and a foreign name.
FileNames == {JoblibFileName(n) : n \in DOMAIN _MODELS} \cup {Str(".gitkeep")}

\* What joblib.dump wrote for the estimator of the model called by the stem.
DumpOf(file) ==
    LET stem == removesuffix(file, JOBLIB)
    IN  IF stem \in DOMAIN _MODELS
        THEN [cls |-> EstimatorClass[_MODELS[stem]], fitted |-> TRUE, src |-> "dump"]
        ELSE [cls |-> "Other", fitted |-> TRUE, src |-> "dump"]

ModelDirArgs == {None, <<>>, SAVED_MODELS, OTHER_DIR}

\* Feature records of request bodies (oldpeak in whole units).
Sample(cp) ==
    [age |-> 63, sex |-> 0, cp |-> cp, trestbps |-> 155, chol |-> 190, fbs |-> 0,
     restecg |-> 0, thalach |-> 123, exang |-> 1, oldpeak |-> 2, slope |-> 1,
     ca |-> 2, thal |-> 0]

FeatureSamples == {Sample(3), Sample(0)}

\* model_name values of request bodies: absent, a known name, an unknown one.
ModelNameArgs == {None, DT_NAME, Str("Random Forest")}

\* Bodies of app/schemas/model.py PredictionRequest.
PredictionRequests == [data : FeatureSamples, model_name : ModelNameArgs]

\* Longest `values` list of a request to POST /predict of app/api.py.
MaxRecords == 2

RecordIds == {"1", "2"}

RECURSIVE SeqsUpTo(_, _)
SeqsUpTo(S, n) ==
    IF n = 0 THEN {<<>>}
    ELSE SeqsUpTo(S, n - 1)
         \cup {Append(q, x) : q \in {r \in SeqsUpTo(S, n - 1) : Len(r) = n - 1}, x \in S}

\* Bodies of POST /predict of app/api.py: a model name and a list of at least
\* one record, as the test posts them.
RecordsRequests ==
    [model_name : {DT_NAME},
     values : SeqsUpTo([record_id : RecordIds, data : {Sample(3)}], MaxRecords) \ {<<>>}]

Emails == {Str("john@doe.com"), Str("jane@doe.com")}

\* E-mails that may already be stored when the application starts.
SeededEmails == {Str("john@doe.com")}

\* model_name values of the path of POST /predict/{model_name}.
PathModelNames == {DT_NAME, KNN_NAME, Str("Random Forest")}

\* model_name values of direct calls of train_model.
TrainModelArgs == {DT_NAME, Str("Decision Trees")}

\* Bodies of app/schemas/users.py User.
UserRequests == [email : Emails, password : {Str("Pa55w0rd")}]

\* Bodies of POST /users/practitioner.
PractitionerRequests == [email : Emails, password : {Str("Pa55w0rd")}]

\* user_id values of the path of GET /users/{user_id}.
UserIds == {1, 2}

\* Model classes on which load_model is called directly.
LoadClasses == {"DecisionTree"}

\* path arguments of direct calls of load_model: omitted, the model's dump,
\* a directory, a path in a directory that may not exist.
LoadPathArgs ==
    {None, join(SAVED_MODELS, JoblibFileName(DT_NAME)), SAVED_MODELS,
     join(OTHER_DIR, JoblibFileName(DT_NAME))}

\* Paths of GET requests below /users: the ids of the tests, and '/'.
GetPaths == {<<"1">>, <<"2">>, <<"3">>, <<"">>}

\* A `user` table holding one row for each e-mail of S.
StoredUsers(S) ==
    LET order == SetToSeq(S)
    IN  {[id |-> i, email |-> order[i], password_hash |-> Str("$2b$12$hash")] :
            i \in 1..Len(order)}

Init ==
    /\ \E present \in BOOLEAN, S \in SUBSET FileNames :
          fs = IF present THEN (SAVED_MODELS :> [file \in S |-> DumpOf(file)])
               ELSE [d \in {} |-> 0]
    /\ csv \in BOOLEAN
    /\ saved_model = Unbound
    /\ \E S \in SUBSET SeededEmails : users = StoredUsers(S)
    /\ trained = {}
    /\ dataset = Data_init(<<>>)
    /\ last = [op |-> "start", exc |-> "None"]

(***************************************************************************)
(* Actions                                                                 *)
(***************************************************************************)
\* SavedModel(model_dir) : app/backend/inference.py lines 37-58.
NewSavedModel(model_dir) ==
    LET r == SavedModel_init(model_dir, fs)
    IN  /\ saved_model' = IF r.exc = "None" THEN r.obj ELSE saved_model
        /\ last' = [op |-> "SavedModel", exc |-> r.exc, model_dir |-> model_dir]
        /\ UNCHANGED <<fs, csv, users, trained, dataset>>

\* train_all(filename) : heart_disease/train.py lines 30-46.
TrainAll ==
    LET r == train_all(csv, fs)
    IN  /\ fs' = r.fs
        /\ trained' = IF r.exc = "None" THEN trained \cup DOMAIN _MODELS ELSE trained
        /\ last' = [op |-> "train_all", exc |-> r.exc, csv |-> csv]
        /\ UNCHANGED <<csv, saved_model, users, dataset>>

\* train_model(model_name, filename) : heart_disease/train.py lines 49-64.
TrainModel(model_name) ==
    LET r == train_model(model_name, csv, fs)
    IN  /\ fs' = r.fs
        /\ trained' = IF r.exc = "None" /\ model_name \in DOMAIN _MODELS
                      THEN trained \cup {model_name} ELSE trained
        /\ last' = [op |-> "train_model", exc |-> r.exc, csv |-> csv,
                    model_name |-> model_name]
        /\ UNCHANGED <<csv, saved_model, users, dataset>>

\* python train.py --select-model choice : train.py lines 54-76.
Main(choice) ==
    LET r == main(choice, csv, fs)
    IN  /\ fs' = r.fs
        /\ trained' = IF r.exc = "None"
                      THEN trained \cup (IF choice = "all" THEN DOMAIN _MODELS
                                         ELSE {r.called} \cap DOMAIN _MODELS)
                      ELSE trained
        /\ last' = [op |-> "main", exc |-> r.exc, csv |-> csv, choice |-> choice,
                    called |-> r.called]
        /\ UNCHANGED <<csv, saved_model, users, dataset>>

\* GET /models : app/routers/model.py lines 50-60, on the module's saved_model.
AvailableModels ==
    /\ saved_model.bound
    /\ LET r == available_models(saved_model)
       IN  last' = [op |-> "available_models", exc |-> r.exc, status |-> Status(r.exc),
                    val |-> r.val]
    /\ UNCHANGED <<fs, csv, saved_model, users, trained, dataset>>

\* POST /predict/ : app/routers/predict.py lines 37-70.
PredictHeartDisease(body) ==
    LET r == predict_heart_disease(body, fs)
    IN  /\ last' = [op |-> "predict_heart_disease", exc |-> r.exc,
                    status |-> Status(r.exc), body |-> body, val |-> r.val]
        /\ UNCHANGED <<fs, csv, saved_model, users, trained, dataset>>

\* POST /predict/{model_name} : app/routers/predict.py lines 73-97.
PredictWithModel(model_name, body) ==
    LET r == predict_with_model(model_name, body, fs)
    IN  /\ last' = [op |-> "predict_with_model", exc |-> r.exc,
                    status |-> Status(r.exc), model_name |-> model_name,
                    body |-> body, val |-> r.val]
        /\ UNCHANGED <<fs, csv, saved_model, users, trained, dataset>>

\* POST /predict : app/api.py lines 63-102.
ApiPredict(body) ==
    LET r == api_predict(body)
    IN  /\ last' = [op |-> "api_predict", exc |-> r.exc, status |-> Status(r.exc),
                    body |-> body, val |-> r.val]
        /\ UNCHANGED <<fs, csv, saved_model, users, trained, dataset>>

\* POST /users/ : app/routers/users.py lines 106-134.
CreateUser(user) ==
    LET r == create_user(user, users)
    IN  /\ users' = r.db
        /\ last' = [op |-> "create_user", exc |-> r.exc, status |-> Status(r.exc),
                    user |-> user, row |-> r.row, before |-> users]
        /\ UNCHANGED <<fs, csv, saved_model, trained, dataset>>

\* POST /users/practitioner : app/routers/users.py lines 168-204.  `again`
\* tells that the previous request posted the same body.
CreatePractitioner(practitioner) ==
    LET r == create_practitioner(practitioner, users)
    IN  /\ users' = r.db
        /\ last' = [op |-> "create_practitioner", exc |-> r.exc,
                    status |-> Status(r.exc), practitioner |-> practitioner,
                    again |-> (last.op = "create_practitioner"
                               /\ last.practitioner = practitioner)]
        /\ UNCHANGED <<fs, csv, saved_model, trained, dataset>>

\* GET /users/{user_id} : app/routers/users.py lines 33-54.
ReadUser(user_id) ==
    LET r == read_user(user_id, users)
    IN  /\ last' = [op |-> "read_user", exc |-> r.exc, status |-> Status(r.exc),
                    user_id |-> user_id, val |-> r.val]
        /\ UNCHANGED <<fs, csv, saved_model, users, trained, dataset>>

\* model.load_model(path) on a newly constructed model :
\* heart_disease/base.py lines 340-357.
LoadModel(class, path) ==
    LET m == NewModel(class)
        r == load_model(m, path, fs)
    IN  /\ last' = [op |-> "load_model", exc |-> r.exc, path |-> path, before |-> m,
                    model |-> r.model]
        /\ UNCHANGED <<fs, csv, saved_model, users, trained, dataset>>

\* GET /users<path> : the routes of app/routers/users.py lines 33-103.
UsersGet(path) ==
    LET r == users_get(path, users)
    IN  /\ last' = [op |-> "users_get", exc |-> r.exc, status |-> Status(r.exc),
                    path |-> path, endpoint |-> r.endpoint, val |-> r.val]
        /\ UNCHANGED <<fs, csv, saved_model, users, trained, dataset>>

\* GET /metadata : app/routers/model.py lines 129-138.
GetMetadata ==
    /\ last' = [op |-> "metadata", exc |-> metadata.exc, status |-> Status(metadata.exc),
                val |-> metadata.val]
    /\ UNCHANGED <<fs, csv, saved_model, users, trained, dataset>>

Next ==
    \/ \E d \in ModelDirArgs : NewSavedModel(d)
    \/ AvailableModels
    \/ \E b \in PredictionRequests : PredictHeartDisease(b)
    \/ \E n \in PathModelNames, b \in PredictionRequests :
          PredictWithModel(n, b)
    \/ \E b \in RecordsRequests : ApiPredict(b)
    \/ \E u \in UserRequests : CreateUser(u)
    \/ \E p \in PractitionerRequests : CreatePractitioner(p)
    \/ \E i \in UserIds : ReadUser(i)
    \/ GetMetadata
    \/ \E path \in GetPaths : UsersGet(path)
    \/ \E c \in LoadClasses, path \in LoadPathArgs : LoadModel(c, path)
    \/ TrainAll
    \/ \E n \in TrainModelArgs : TrainModel(n)
    \/ \E c \in Choices : Main(c)

Spec == Init /\ [][Next]_vars

(***************************************************************************)
(* The methods of SavedModel on a given registry.  The constructor is the  *)
(* only code that fills _models; here the object is an input of the call,  *)
(* as it is for a caller that holds a SavedModel with models in it.        *)
(***************************************************************************)
\* A model of the registry as load_model leaves it (a fitted dump), as its
\* class constructs it (not fitted), or with no estimator (model set to None).
RegistryModels(name) ==
    LET m == NewModel(_MODELS[name])
    IN  {[m EXCEPT !._model = DumpOf(JoblibFileName(name))], m,
         [m EXCEPT !._model = NoEstimator]}

Registries ==
    UNION {[S -> UNION {RegistryModels(n) : n \in S}] : S \in SUBSET DOMAIN _MODELS}

\* Arrays handed to predict and predict_all: one sample, or data_to_array's.
InputArrays ==
    {Array2D(<<[i \in 1..Len(FeatureNames) |-> d[FeatureNames[i]]]>>) : d \in FeatureSamples}
    \cup {data_to_array(d) : d \in FeatureSamples}

InitRegistry ==
    /\ fs = (SAVED_MODELS :> [file \in {} |-> 0])
    /\ csv = TRUE
    /\ \E r \in Registries :
          /\ \A n \in DOMAIN r : r[n] \in RegistryModels(n)
          /\ saved_model = [bound |-> TRUE, model_dir |-> SAVED_MODELS, _models |-> r]
    /\ users = {}
    /\ trained = {}
    /\ dataset = Data_init(<<>>)
    /\ last = [op |-> "start", exc |-> "None"]

\* saved_model.predict_all(inputs) : app/backend/inference.py lines 137-176.
PredictAll(inputs) ==
    LET r == predict_all(saved_model, inputs)
    IN  /\ last' = [op |-> "predict_all", exc |-> r.exc, inputs |-> inputs, val |-> r.val]
        /\ UNCHANGED <<fs, csv, saved_model, users, trained, dataset>>

\* saved_model.predict(inputs, name=name, model=model) : lines 80-135.
Predict(inputs, name, model) ==
    LET r == predict(saved_model, inputs, name, model)
    IN  /\ last' = [op |-> "predict", exc |-> r.exc, inputs |-> inputs, name |-> name,
                    model |-> model, val |-> r.val]
        /\ UNCHANGED <<fs, csv, saved_model, users, trained, dataset>>

\* saved_model.list_available_models() : lines 71-78.
ListAvailableModels ==
    /\ last' = [op |-> "list_available_models", exc |-> "None",
                val |-> list_available_models(saved_model)]
    /\ UNCHANGED <<fs, csv, saved_model, users, trained, dataset>>

\* saved_model[item] : lines 60-69.
GetItem(item) ==
    LET r == SavedModel_getitem(saved_model, item)
    IN  /\ saved_model' = r.self
        /\ last' = [op |-> "__getitem__", exc |-> r.exc, item |-> item, val |-> r.val]
        /\ UNCHANGED <<fs, csv, users, trained, dataset>>

\* The items asked of saved_model[item]: model names and a name of no model.
ItemArgs == {DT_NAME, SVM_NAME, Str("Random Forest")}

\* The `model` arguments of direct calls of predict: none, or a registered model.
ModelArgs == {NoModel} \cup {saved_model._models[n] : n \in DOMAIN saved_model._models}

NextRegistry ==
    \/ \E x \in InputArrays : PredictAll(x)
    \/ \E x \in InputArrays, n \in ModelNameArgs, m \in ModelArgs : Predict(x, n, m)
    \/ ListAvailableModels
    \/ \E item \in ItemArgs : GetItem(item)

SpecRegistry == InitRegistry /\ [][NextRegistry]_vars

(***************************************************************************)
(* The request schema and the password functions, each called on its own.  *)
(***************************************************************************)
\* How far outside a declared limit the probed values go.
MaxBeyond == 1

\* Values probed for a feature: its limits and the values just outside them.
ProbeValues(n) ==
    {FeatureBounds[n].ge}
    \cup {FeatureBounds[n].ge - d : d \in 1..MaxBeyond}
    \cup (IF "le" \in DOMAIN FeatureBounds[n]
          THEN {FeatureBounds[n].le} \cup {FeatureBounds[n].le + d : d \in 1..MaxBeyond}
          ELSE {})

\* The JSON object f without the key n.
Without(f, n) == [k \in DOMAIN f \ {n} |-> f[k]]

\* `data` objects of raw bodies: a sample, the sample with one value replaced by
\* a probed value, with one feature missing, and with a key that is no field.
RawFeatures ==
    {Sample(3)}
    \cup {[Sample(3) EXCEPT ![n] = v] : n \in DOMAIN FeatureBounds, v \in UNION {ProbeValues(m) : m \in DOMAIN FeatureBounds}}
    \cup {Without(Sample(3), n) : n \in DOMAIN FeatureBounds}
    \cup {[k \in DOMAIN Sample(3) \cup {"target"} |-> IF k = "target" THEN 1 ELSE Sample(3)[k]]}

\* Raw bodies: with and without model_name, and one without data.
RawRequests ==
    {[data |-> d] : d \in RawFeatures}
    \cup {[data |-> d, model_name |-> DT_NAME] : d \in RawFeatures}
    \cup {[model_name |-> DT_NAME]}

\* Plain passwords.
Passwords == {Str("Pa55w0rd"), <<"Pa55", "w0rd">>, Str("abcd")}

\* Longest password probed.
MaxPasswordLen == 22

\* A password of k characters.
PasswordOfLength(k) == [i \in 1..k |-> "x"]

\* Raw bodies of User: a valid e-mail and a password of each length.
RawUsers ==
    {[email |-> Str("john@doe.com"), password |-> PasswordOfLength(k)] :
        k \in 0..MaxPasswordLen}

InitSchema ==
    /\ fs = [d \in {} |-> 0]
    /\ csv = FALSE
    /\ saved_model = Unbound
    /\ users = {}
    /\ trained = {}
    /\ dataset = Data_init(<<>>)
    /\ last = [op |-> "start", exc |-> "None"]

\* PredictionRequest(**raw) : app/schemas/model.py lines 29-122.
ValidatePredictionRequest(raw) ==
    LET r == PredictionRequest(raw)
    IN  /\ last' = [op |-> "PredictionRequest", exc |-> r.exc, raw |-> raw, val |-> r.val]
        /\ UNCHANGED <<fs, csv, saved_model, users, trained, dataset>>

\* get_password_hash(password), then verify_password on what it returned :
\* app/backend/user.py lines 22-44.
GetPasswordHash(password) ==
    LET hash == get_password_hash(password)
    IN  /\ last' = [op |-> "get_password_hash", exc |-> "None", password |-> password,
                    hash |-> hash, verified |-> verify_password(password, hash)]
        /\ UNCHANGED <<fs, csv, saved_model, users, trained, dataset>>

\* SavedModel.data_to_array(data) on an accepted Features object :
\* app/backend/inference.py lines 178-188.
DataToArray(data) ==
    /\ last' = [op |-> "data_to_array", exc |-> "None", data |-> data,
                val |-> data_to_array(data)]
    /\ UNCHANGED <<fs, csv, saved_model, users, trained, dataset>>

\* User(**raw) : app/schemas/users.py lines 21-36.
ValidateUser(raw) ==
    LET r == User(raw)
    IN  /\ last' = [op |-> "User", exc |-> r.exc, raw |-> raw, val |-> r.val]
        /\ UNCHANGED <<fs, csv, saved_model, users, trained, dataset>>

NextSchema ==
    \/ \E raw \in RawRequests : ValidatePredictionRequest(raw)
    \/ \E p \in Passwords : GetPasswordHash(p)
    \/ \E d \in FeatureSamples : DataToArray(d)
    \/ \E raw \in RawUsers : ValidateUser(raw)

SpecSchema == InitSchema /\ [][NextSchema]_vars

(***************************************************************************)
(* Iterating a Data object : heart_disease/data.py                         *)
(***************************************************************************)
\* Most rows of a frame.
MaxRows == 3

\* Rows of the CSV file: feature values and the target.
DataRows ==
    {[features |-> <<63, 1, 3>>, target |-> 1], [features |-> <<41, 0, 1>>, target |-> 0],
     [features |-> <<57, 1, 0>>, target |-> 0]}

DataFrames == SeqsUpTo(DataRows, MaxRows)

InitData ==
    /\ fs = [d \in {} |-> 0]
    /\ csv = TRUE
    /\ saved_model = Unbound
    /\ users = {}
    /\ trained = {}
    /\ \E rows \in DataFrames : dataset = Data_init(rows)
    /\ last = [op |-> "start", exc |-> "None", yielded |-> <<>>]

\* next(dataset) : heart_disease/data.py lines 65-81.  `yielded` lists the pairs
\* the calls since construction have returned.
DataNext ==
    LET r == Data_next(dataset)
    IN  /\ dataset' = r.self
        /\ last' = [op |-> "__next__", exc |-> r.exc, val |-> r.val,
                    yielded |-> IF r.exc = "None" THEN Append(last.yielded, r.val)
                                ELSE last.yielded]
        /\ UNCHANGED <<fs, csv, saved_model, users, trained>>

\* len(dataset) : heart_disease/data.py lines 59-60.
DataLen ==
    /\ last' = [op |-> "__len__", exc |-> "None", val |-> Data_len(dataset),
                yielded |-> last.yielded]
    /\ UNCHANGED <<fs, csv, saved_model, users, trained, dataset>>

NextData ==
    \/ DataNext
    \/ DataLen

SpecData == InitData /\ [][NextData]_vars

(***************************************************************************)
(* Properties                                                              *)
(***************************************************************************)
\* Every file of the directory is '<name>.joblib' for a key <name> of _MODELS.
OnlyKnownDumps(dir) ==
    \A file \in listdir(fs, dir) : \E n \in DOMAIN _MODELS : file = JoblibFileName(n)

\* The model names whose dumps the directory holds.
DumpedNames(dir) == {removesuffix(file, JOBLIB) : file \in listdir(fs, dir)}

\* C1: constructing SavedModel on an existing directory whose files are each
\* '<name>.joblib' for a known model name returns, and the registry's keys are
\* exactly those names, each mapped to a model holding the estimator of its file.
C1_RegistryFromDirectory ==
    (/\ last.op = "SavedModel"
     /\ isdir(fs, last.model_dir)
     /\ OnlyKnownDumps(last.model_dir))
    => /\ last.exc = "None"
       /\ saved_model.bound
       /\ saved_model.model_dir = last.model_dir
       /\ DOMAIN saved_model._models = DumpedNames(last.model_dir)
       /\ \A n \in DOMAIN saved_model._models :
             saved_model._models[n]._model
                = ReadFile(fs, join(last.model_dir, JoblibFileName(n)))

\* C2: GET /models returns the names of all models of the registry, and when the
\* four trained models are saved the registry the router builds from
\* FS.SAVED_MODELS makes it return exactly the four names of _MODELS.
C2_AvailableModels ==
    /\ last.op = "available_models"
          => last.status = 200 /\ last.val = DOMAIN saved_model._models
    /\ (/\ last.op = "SavedModel"
        /\ last.model_dir = SAVED_MODELS
        /\ isdir(fs, SAVED_MODELS)
        /\ DumpedNames(SAVED_MODELS) = DOMAIN _MODELS
        /\ OnlyKnownDumps(SAVED_MODELS))
       => /\ last.exc = "None"
          /\ saved_model.bound
          /\ available_models(saved_model).val = DOMAIN _MODELS
          /\ Cardinality(available_models(saved_model).val) = 4

\* C3: POST /predict of app/api.py answers 200 with, for each record of the
\* request, a record of the same record_id, errors and warnings null and
\* data.model_name the requested model_name.
C3_ApiPredict ==
    last.op = "api_predict"
    => /\ last.status = 200
       /\ \A i \in 1..Len(last.body.values) :
             \E j \in 1..Len(last.val) :
                /\ last.val[j].record_id = last.body.values[i].record_id
                /\ last.val[j].errors = None
                /\ last.val[j].warnings = None
                /\ last.val[j].data.model_name = last.body.model_name

\* C4: POST /predict/ returns a single prediction made by the model named
\* body.model_name when a (registered) model_name is given, and otherwise one
\* prediction for each model of the registry built from FS.SAVED_MODELS.
C4_PredictHeartDisease ==
    (/\ last.op = "predict_heart_disease"
     /\ isdir(fs, SAVED_MODELS)
     /\ OnlyKnownDumps(SAVED_MODELS)
     /\ Falsy(last.body.model_name) \/ last.body.model_name \in DumpedNames(SAVED_MODELS))
    => /\ last.exc = "None"
       /\ IF ~Falsy(last.body.model_name)
          THEN Len(last.val) = 1 /\ last.val[1].model_name = last.body.model_name
          ELSE /\ Len(last.val) = Cardinality(DumpedNames(SAVED_MODELS))
               /\ {last.val[i].model_name : i \in 1..Len(last.val)}
                     = DumpedNames(SAVED_MODELS)

\* C5: for every model name of the registry, POST /predict/{model_name} predicts
\* with the model named in the path: the response's model_name is the path's.
C5_PredictWithModel ==
    (/\ last.op = "predict_with_model"
     /\ isdir(fs, SAVED_MODELS)
     /\ OnlyKnownDumps(SAVED_MODELS)
     /\ last.model_name \in DumpedNames(SAVED_MODELS))
    => /\ last.exc = "None"
       /\ last.val.model_name = last.model_name

\* The registered models whose own prediction, Model.__call__, returns.
Predicting(self, inputs) ==
    {n \in DOMAIN self._models : Model_call(self._models[n], inputs).exc = "None"}

C7_TrainAllSaves ==
    (last.op = "train_all" /\ last.csv)
    => /\ last.exc = "None"
       /\ \A n \in DOMAIN _MODELS :
             /\ isfile(fs, join(SAVED_MODELS, JoblibFileName(n)))
             /\ ReadFile(fs, join(SAVED_MODELS, JoblibFileName(n))).fitted

\* C8: a registry constructed on the directory training wrote lists exactly
\* the model names that were trained, and the model under each name reports it.
C8_SaveLoadRoundTrip ==
    (/\ last.op = "SavedModel"
     /\ last.model_dir = SAVED_MODELS
     /\ trained # {}
     /\ isdir(fs, SAVED_MODELS) => DumpedNames(SAVED_MODELS) \subseteq trained)
    => /\ last.exc = "None"
       /\ saved_model.bound
       /\ DOMAIN saved_model._models = trained
       /\ \A n \in DOMAIN saved_model._models : saved_model._models[n]._name = n

\* C9: for every --select-model choice other than 'all', main() calls
\* train_model with a model name that is a key of _MODELS.
C9_MainSelectsKnownModel ==
    (last.op = "main" /\ last.choice # "all")
    => last.called \in DOMAIN _MODELS

\* C10: create_user answers 400 and adds no row when the e-mail is already
\* stored; otherwise it adds exactly one row with that e-mail and returns it.
C10_CreateUser ==
    last.op = "create_user"
    => IF \E r \in last.before : r.email = last.user.email
       THEN last.status = 400 /\ users = last.before
       ELSE /\ last.exc = "None"
            /\ last.before \subseteq users
            /\ users \ last.before = {last.row}
            /\ last.row.email = last.user.email

\* C11: POST /users/practitioner with a valid body answers 200, and answers
\* 200 again when the same body is posted a second time.
C11_CreatePractitionerTwice ==
    /\ last.op = "create_practitioner" => last.status = 200
    /\ (last.op = "create_practitioner" /\ last.again) => last.status = 200

\* C12: GET /users/{user_id} answers 400 when no user with that id is stored,
\* and 200 with the stored user when one is.
C12_ReadUser ==
    last.op = "read_user"
    => IF \E r \in users : r.id = last.user_id
       THEN last.status = 200 /\ last.val \in users /\ last.val.id = last.user_id
       ELSE last.status = 400

\* C13: the metadata endpoint returns a record whose name is 'heart-disease',
\* whose version is 'v1' and whose license is 'MIT or Apache'.
C13_Metadata ==
    last.op = "metadata"
    => /\ last.status = 200
       /\ last.val.name = Str("heart-disease")
       /\ last.val.version = Str("v1")
       /\ last.val.license = Str("MIT or Apache")

\* The raw data object holds the feature n with a value within the bounds
\* declared for n.
WithinBounds(data, n) ==
    /\ n \in DOMAIN data
    /\ data[n] >= FeatureBounds[n].ge
    /\ "le" \in DOMAIN FeatureBounds[n] => data[n] <= FeatureBounds[n].le

C15_PasswordRoundTrip ==
    last.op = "get_password_hash"
    => /\ last.hash # None
       /\ verify_password(last.password, last.hash)

\* C16: SavedModel.predict raises ValueError when both name and model are
\* None, and does not raise it when at least one of them is given.
C16_PredictNeedsNameOrModel ==
    last.op = "predict"
    => IF last.name = None /\ last.model = NoModel
       THEN last.exc = "ValueError"
       ELSE last.exc # "ValueError"

\* C17: SavedModel.predict called with a name that is no key of the registry,
\* and no model argument, raises KeyError and returns no prediction.
C17_PredictUnknownName ==
    (/\ last.op = "predict"
     /\ last.model = NoModel
     /\ last.name # None
     /\ last.name \notin DOMAIN saved_model._models)
    => last.exc = "KeyError" /\ last.val = NoPrediction

\* The model the documentation of predict says a call uses: the one registered
\* under name when name is given, the model argument only if name is not given.
DocumentedModel(self, name, model) ==
    IF name # None THEN self._models[name] ELSE model

\* C18: a call of predict whose name is registered, or whose name is not given
\* and whose model is, answers with the prediction of the model registered
\* under name in the first case and of the model argument in the second.
C18_PredictNameBeforeModel ==
    (/\ last.op = "predict"
     /\ IF last.name # None THEN last.name \in DOMAIN saved_model._models
        ELSE last.model # NoModel
     /\ Model_call(DocumentedModel(saved_model, last.name, last.model), last.inputs).exc
           = "None")
    => LET used == DocumentedModel(saved_model, last.name, last.model)
       IN  /\ last.exc = "None"
           /\ last.val.model_name = used._name
           /\ \A i \in 1..Len(last.val.has_heart_disease) :
                 last.val.has_heart_disease[i]
                    = (Model_call(used, last.inputs).prediction[i] # 0)

\* The highest of the class probabilities (tenths) of one sample.
Highest(row) == CHOOSE x \in {row[j] : j \in 1..Len(row)} : \A j \in 1..Len(row) : row[j] <= x

\* C19: when predict is called on one sample with a model whose own call
\* returns, it returns a dict whose model_name is the name of the model used,
\* whose has_heart_disease is the boolean `predicted class is non-zero`, and
\* whose confidence_score is None when the estimator gives no probabilities and
\* otherwise the highest class probability as a percentage between 0 and 100.
C19_PredictResult ==
    (/\ last.op = "predict"
     /\ last.name = None
     /\ last.model # NoModel
     /\ Model_call(last.model, last.inputs).exc = "None"
     /\ Len(Model_call(last.model, last.inputs).prediction) = 1)
    => LET result == Model_call(last.model, last.inputs)
       IN  /\ last.exc = "None"
           /\ last.val.model_name = last.model._name
           /\ last.val.has_heart_disease = (result.prediction[1] # 0)
           /\ IF result.confidence = NoConfidence
              THEN last.val.confidence_score = None
              ELSE /\ last.val.confidence_score = Highest(result.confidence[1]) * 10
                   /\ last.val.confidence_score \in 0..100

\* C20: load_model(path) raises FileNotFoundError if the path (the model's own
\* default path when the argument is omitted) is not an existing file, and
\* otherwise replaces the model's estimator with the one stored at the path.
C20_LoadModel ==
    last.op = "load_model"
    => LET path == IF last.path = None THEN last.before._path ELSE last.path
       IN  IF isfile(fs, path)
           THEN /\ last.exc = "None"
                /\ last.model = [last.before EXCEPT !._model = ReadFile(fs, path)]
           ELSE /\ last.exc = "FileNotFoundError"
                /\ last.model = last.before

\* C21: data_to_array(features) returns an array holding the 13 feature values
\* of the request in the order age, sex, cp, trestbps, chol, fbs, restecg,
\* thalach, exang, oldpeak, slope, ca, thal.
C21_DataToArrayOrder ==
    last.op = "data_to_array"
    => LET d == last.data
           values == <<d.age, d.sex, d.cp, d.trestbps, d.chol, d.fbs, d.restecg,
                       d.thalach, d.exang, d.oldpeak, d.slope, d.ca, d.thal>>
       IN  /\ last.exc = "None"
           /\ last.val.ndim \in {1, 2}
           /\ last.val.rows = IF last.val.ndim = 1 THEN values ELSE <<values>>

\* C23: the user schema accepts a password only if its length is more than 4
\* characters and less than 20 characters.
C23_PasswordLength ==
    (last.op = "User" /\ last.exc = "None")
    => Len(last.raw.password) > 4 /\ Len(last.raw.password) < 20

\* C22: iterating a Data object of n rows yields exactly n (features, target)
\* pairs, the i-th pair being the i-th row starting with the first row, and
\* then raises StopIteration.
C22_DataIteration ==
    last.op = "__next__"
    => /\ last.exc \in {"None", "StopIteration"}
       /\ Len(last.yielded) <= Len(dataset._df)
       /\ \A i \in 1..Len(last.yielded) : last.yielded[i] = dataset._df[i]
       /\ last.exc = "StopIteration" => Len(last.yielded) = Len(dataset._df)

\* C24: list_available_models, __getitem__, predict and predict_all leave the
\* registry's name-to-model mapping unchanged: every step of these calls keeps
\* the mapping, and with it the set of available model names, as it was.
C24_RegistryUnchanged ==
    [][/\ saved_model'._models = saved_model._models
       /\ list_available_models(saved_model') = list_available_models(saved_model)]_vars

\* saved_model[item] has been asked for an item that a registry holding
\* models does not have.
C24_Witness ==
    /\ last.op = "__getitem__"
    /\ last.exc = "KeyError"
    /\ last.item \notin DOMAIN saved_model._models
    /\ DOMAIN saved_model._models # {}

====
